---- MODULE Spec2Model ----
(***************************************************************************)
(* Model of lanelet2_core/src/BasicRegulatoryElements.cpp: the typed views *)
(* TrafficLight, RightOfWay, TrafficSign and SpeedLimit over one shared    *)
(* regulatory element record (attribute map + role-keyed parameter store). *)
(* One view is constructed (directly, or from a raw record) and is then    *)
(* queried and mutated; lanelets referenced weakly may be destroyed.       *)
(***************************************************************************)
EXTENDS Integers, Sequences, FiniteSets, TLC

VARIABLES
    view,       \* which concrete type was constructed: "none" before construction
    status,     \* "new" | "ok" | "failed" (constructor threw) | "crashed" (undefined behaviour)
    params,     \* the record's RuleParameterMap: a function from the roles present to sequences
    attrs,      \* the record's AttributeMap
    primAttrs,  \* the attribute maps of the sign primitives (shared primitive data)
    live,       \* the lanelets whose data is still owned by someone
    made,       \* the constructor call that built the view
    last        \* the last call: its name, arguments and what it returned or threw

vars == <<view, status, params, attrs, primAttrs, live, made, last>>

(***************************************************************************)
(* Bounds of the model.                                                    *)
(***************************************************************************)
\* longest sequence handed to a constructor or found in a raw record, per role
MaxInit == 2
\* most entries the list roles of a record hold together (the stop line of a
\* TrafficLight or RightOfWay is not a list): an add is taken only below it
MaxEntries == 3

(***************************************************************************)
(* Primitives and references (RuleParameter is a variant over these).      *)
(***************************************************************************)
LS(i) == [kind |-> "linestring", id |-> i]
POLY(i) == [kind |-> "polygon", id |-> i]
PT(i) == [kind |-> "point", id |-> i]
WLL(i) == [kind |-> "weak_lanelet", id |-> i]
\* a strong lanelet (Lanelet / ConstLanelet): it owns the lanelet's data
LL(i) == [kind |-> "lanelet", id |-> i]
\* the empty Optional
None == [kind |-> "none", id |-> 0]

LineStrings == {LS(1), LS(2)}
Polygons == {POLY(3)}
Points == {PT(4)}
LaneletIds == {5, 6}
\* the lanelet whose last owner may go away while the record still refers to it
Destructible == {5}
\* what addTrafficLight/addTrafficSign accept: LineStringOrPolygon3d
Signs == {LS(1), POLY(3)}
SignIds == {1, 3}
\* the primitives that carry attributes of their own
PrimIds == {1, 3, 4}

\* roles (RoleName)
Refers == "refers"
RefLine == "ref_line"
RightOfWayRole == "right_of_way"
Yield == "yield"
Cancels == "cancels"
CancelLine == "cancel_line"
Roles == {Refers, RefLine, RightOfWayRole, Yield, Cancels, CancelLine}

\* attributes (AttributeName, AttributeValueString)
NoAttr == "<absent>"
AttrType == "type"
AttrSubtype == "subtype"
AttrLocation == "location"
AttrNames == {AttrType, AttrSubtype, AttrLocation}
RegulatoryElementStr == "regulatory_element"
TrafficLightStr == "traffic_light"
TrafficSignStr == "traffic_sign"
SpeedLimitStr == "speed_limit"
RightOfWayStr == "right_of_way"

\* the attribute maps callers and raw records supply
EmptyAttributes == [a \in AttrNames |-> NoAttr]
ForeignAttributes == [a \in AttrNames |->
    IF a = AttrType THEN "lanelet" ELSE IF a = AttrSubtype THEN "road" ELSE "urban"]
\* what callers pass to the constructors
AttrInputs == {ForeignAttributes}
\* what a raw record carries when it reaches the factory registered under tag:
\* the Subtype that selected the factory, and whatever else the file held
RawAttributes(tag) == [ForeignAttributes EXCEPT ![AttrSubtype] = tag]

(***************************************************************************)
(* Sequences.                                                              *)
(***************************************************************************)
SeqsUpTo(S, n) == UNION {[1..k -> S] : k \in 0..n}

RemoveAt(s, i) == [j \in 1..(Len(s) - 1) |-> IF j < i THEN s[j] ELSE s[j + 1]]

\* utils::transform
transform(s, f(_)) == [i \in 1..Len(s) |-> f(s[i])]

(***************************************************************************)
(* The parameter store.                                                    *)
(***************************************************************************)
\* std::map::find followed by a read: an absent key reads as the empty sequence
Get(p, role) == IF role \in DOMAIN p THEN p[role] ELSE <<>>

\* std::map::operator[] followed by an assignment: creates the key
Put(p, role, s) == [r \in (DOMAIN p) \cup {role} |-> IF r = role THEN s ELSE p[r]]

NoParams == [r \in {} |-> <<>>]

RECURSIVE SumLen(_, _)
SumLen(p, rs) ==
    IF rs = {} THEN 0
    ELSE LET r == CHOOSE x \in rs : TRUE IN Len(p[r]) + SumLen(p, rs \ {r})

\* the entries p holds in the roles rs
Entries(p, rs) == SumLen(p, (DOMAIN p) \cap rs)

(***************************************************************************)
(* Weak lanelets and equality of references.                               *)
(***************************************************************************)
expired(id) == id \notin live

\* std::weak_ptr::lock: the owned data, or null (0) once expired
lock(id) == IF id \in live THEN id ELSE 0

\* a faulty comparison that forgets the expiry tests: two expired pointers both
\* lock to null and compare equal
WptrEq_NoExpiry(lhs, rhs) == lock(lhs) = lock(rhs)

\* operator==(LaneletDataConstWptr, LaneletDataConstWptr)
WptrEq(lhs, rhs) == ~expired(lhs) /\ ~expired(rhs) /\ lock(lhs) = lock(rhs)

\* operator== of RuleParameter (a boost::variant): the same alternative holding
\* equal values; geometry compares by the identity of its data, weak lanelets
\* by the operator above
RuleParameterEq(a, b) ==
    /\ a.kind = b.kind
    /\ IF a.kind = "weak_lanelet" THEN WptrEq(a.id, b.id) ELSE a.id = b.id

\* std::find: the first index whose entry equals x, or Len + 1 for end()
find(member, x) ==
    IF \E i \in 1..Len(member) : RuleParameterEq(member[i], x)
    THEN CHOOSE i \in 1..Len(member) :
            /\ RuleParameterEq(member[i], x)
            /\ \A j \in 1..(i - 1) : ~RuleParameterEq(member[j], x)
    ELSE Len(member) + 1

\* a faulty findAndErase that erases the last match instead of the first
findAndErase_Last(primitive, member) ==
    IF \E i \in 1..Len(member) : RuleParameterEq(member[i], primitive)
    THEN [found |-> TRUE,
          member |-> RemoveAt(member, CHOOSE i \in 1..Len(member) :
                                  /\ RuleParameterEq(member[i], primitive)
                                  /\ \A j \in (i + 1)..Len(member) :
                                        ~RuleParameterEq(member[j], primitive))]
    ELSE [found |-> FALSE, member |-> member]

findAndErase(primitive, member) ==
    LET it == find(member, primitive) IN
    IF it = Len(member) + 1
    THEN [found |-> FALSE, member |-> member]
    ELSE [found |-> TRUE, member |-> RemoveAt(member, it)]

tryGetFront(vec) == IF vec = <<>> THEN None ELSE Head(vec)

\* RuleParameter(lanelet): a strong lanelet is stored as a weak one
toWeak(l) == WLL(l.id)

\* toRuleParameters for lanelets
toRuleParametersLanelets(primitives) == transform(primitives, toWeak)

\* toRuleParameters for linestrings and LineStringOrPolygon3d: the variant
\* alternative is the primitive's own kind
asRuleParameter(prim) == [kind |-> prim.kind, id |-> prim.id]

toRuleParameters(primitives) == transform(primitives, asRuleParameter)

(***************************************************************************)
(* The typed accessors of the view base.                                   *)
(***************************************************************************)
IsKind(k, x) == x.kind = k

\* getParameters<LineString3d> / <ConstLineString3d>: the linestring entries
getParametersLineString(p, role) ==
    SelectSeq(Get(p, role), LAMBDA x : IsKind("linestring", x))

\* getParameters<WeakLanelet>: the weak lanelet entries, expired or not
getParametersWeakLanelet(p, role) ==
    SelectSeq(Get(p, role), LAMBDA x : IsKind("weak_lanelet", x))

\* utils::strong: the live weak lanelets, locked
strong(weak) == transform(SelectSeq(weak, LAMBDA w : ~expired(w.id)), LAMBDA w : LL(lock(w.id)))

\* getParameters<ConstLanelet>
getParametersLanelet(p, role) == strong(getParametersWeakLanelet(p, role))

getLsOrPoly(paramsMap, role) ==
    IF role \notin DOMAIN paramsMap THEN <<>>
    ELSE SelectSeq(paramsMap[role],
                   LAMBDA param : IsKind("linestring", param) \/ IsKind("polygon", param))

getConstLsOrPoly(p, role) == getLsOrPoly(p, role)

contains(vec, x) == \E i \in 1..Len(vec) : vec[i] = x

(***************************************************************************)
(* Calls and their outcomes.                                               *)
(***************************************************************************)
InvalidInputError == "InvalidInputError"

\* a call that returned nothing and threw nothing
Call(op, role, arg) ==
    [op |-> op, role |-> role, arg |-> arg, err |-> "", bret |-> FALSE,
     sret |-> "", lret |-> <<>>, oret |-> None, pre |-> <<>>, undo |-> FALSE]

Threw(c, msg) == [c EXCEPT !.err = InvalidInputError, !.sret = msg]

Alive(vs) == view \in vs /\ status = "ok"

\* the base constructor RegulatoryElement(data) wraps the record as it is; the
\* derived constructor's checks decide whether a view comes to exist
Construct(v, op, arg, data, msg) ==
    /\ view = "none"
    /\ view' = v
    /\ made' = op
    /\ status' = IF msg = "" THEN "ok" ELSE "failed"
    /\ params' = data.parameters
    /\ attrs' = data.attributes
    /\ last' = IF msg = "" THEN Call(op, "", arg) ELSE Threw(Call(op, "", arg), msg)

\* parameters()[role].emplace_back(x)
Add(op, role, x, lists) ==
    /\ Entries(params, lists) < MaxEntries
    /\ params' = Put(params, role, Append(Get(params, role), x))
    /\ last' = [Call(op, role, x) EXCEPT !.pre = Get(params, role)]
    /\ status' = status

\* findAndErase(x, parameters().find(role)->second): find() of a role the map
\* does not hold is end(), and ->second of end() is undefined behaviour: the
\* call may crash, or run findAndErase on whatever memory is there
removeOutcomes(p, role, x) ==
    IF role \in DOMAIN p
    THEN LET r == findAndErase(x, p[role]) IN
         {[status |-> "ok", found |-> r.found, parameters |-> Put(p, role, r.member)]}
    ELSE {[status |-> "crashed", found |-> FALSE, parameters |-> p],
          [status |-> "ok", found |-> FALSE, parameters |-> p],
          [status |-> "ok", found |-> TRUE, parameters |-> p]}

\* pre is the role's sequence before the call or, when the call takes back the
\* add made just before it (undo), before that add
Remove(op, role, x, addOp) ==
    \E o \in removeOutcomes(params, role, x) :
        /\ status' = o.status
        /\ params' = o.parameters
        /\ LET undo == last.op = addOp /\ last.arg = x IN
           last' = [Call(op, role, x) EXCEPT
                       !.bret = o.found, !.undo = undo,
                       !.pre = IF undo THEN last.pre ELSE Get(params, role)]

\* a faulty assignment that appends to the role's sequence instead of replacing it
Assign_Append(op, role, x, seq) ==
    /\ params' = Put(params, role, Get(params, role) \o seq)
    /\ last' = [Call(op, role, x) EXCEPT !.pre = Get(params, role)]
    /\ status' = status

\* parameters()[role] = seq
Assign(op, role, x, seq) ==
    /\ params' = Put(params, role, seq)
    /\ last' = [Call(op, role, x) EXCEPT !.pre = Get(params, role)]
    /\ status' = status

(***************************************************************************)
(* Raw records, as a deserializer may hand them to a factory.              *)
(***************************************************************************)
\* the stores over the roles rs: role r is absent or holds up to MaxInit entries
\* of alpha[r], and the roles in lists hold up to MaxEntries entries together
RECURSIVE RawStores(_, _, _)
RawStores(rs, alpha, lists) ==
    IF rs = {} THEN {NoParams}
    ELSE LET r == CHOOSE x \in rs : TRUE
             rest == RawStores(rs \ {r}, alpha, lists)
         IN rest \cup {q \in {Put(p, r, s) : p \in rest, s \in SeqsUpTo(alpha[r], MaxInit)} :
                          Entries(q, lists) <= MaxEntries}

RawRecords(rs, alpha, lists, tag) ==
    {[parameters |-> p, attributes |-> RawAttributes(tag)] : p \in RawStores(rs, alpha, lists)}

(***************************************************************************)
(* TrafficLight.                                                           *)
(***************************************************************************)
constructTrafficLightData(attributes, trafficLights, stopLine) ==
    LET rpm == Put(NoParams, Refers, toRuleParameters(trafficLights))
        rpm2 == IF stopLine # None THEN Put(rpm, RefLine, <<stopLine>>) ELSE rpm
    IN [parameters |-> rpm2,
        attributes |-> [attributes EXCEPT ![AttrType] = RegulatoryElementStr,
                                          ![AttrSubtype] = TrafficLightStr]]

\* the checks of TrafficLight::TrafficLight(data): the message thrown, or ""
TrafficLightCheck(p) ==
    IF getParametersLineString(p, Refers) = <<>> THEN "No traffic light defined!"
    ELSE IF Len(getParametersLineString(p, RefLine)) > 1
         THEN "There not exist more than one stop line!"
         ELSE ""

TrafficLightAlphabet == [r \in {Refers, RefLine} |-> {LS(1), POLY(3)}]

TL == {"TrafficLight"}
TrafficLightLists == {Refers}

TrafficLightRecords == RawRecords({Refers, RefLine}, TrafficLightAlphabet, TrafficLightLists, TrafficLightStr)

TrafficLightFromData ==
    /\ view = "none"
    /\ \E data \in TrafficLightRecords :
        /\ Construct("TrafficLight", "TrafficLight(data)", None, data, TrafficLightCheck(data.parameters))
        /\ UNCHANGED <<primAttrs, live>>

TrafficLightNew ==
    /\ view = "none"
    /\ \E attributes \in AttrInputs, trafficLights \in SeqsUpTo(LineStrings, MaxInit),
          stopLine \in LineStrings \cup {None} :
        LET data == constructTrafficLightData(attributes, trafficLights, stopLine) IN
        /\ Construct("TrafficLight", "TrafficLight(id, ...)", None, data, TrafficLightCheck(data.parameters))
        /\ UNCHANGED <<primAttrs, live>>

TrafficLight_stopLine ==
    /\ Alive(TL)
    /\ last' = [Call("stopLine", RefLine, None) EXCEPT
                   !.oret = tryGetFront(getParametersLineString(params, RefLine))]
    /\ UNCHANGED <<view, made, status, params, attrs, primAttrs, live>>

addTrafficLight ==
    /\ Alive(TL)
    /\ \E primitive \in Signs :
        /\ Add("addTrafficLight", Refers, asRuleParameter(primitive), TrafficLightLists)
        /\ UNCHANGED <<view, made, attrs, primAttrs, live>>

removeTrafficLight ==
    /\ Alive(TL)
    /\ \E primitive \in Signs :
        /\ Remove("removeTrafficLight", Refers, asRuleParameter(primitive), "addTrafficLight")
        /\ UNCHANGED <<view, made, attrs, primAttrs, live>>

TrafficLight_setStopLine ==
    /\ Alive(TL)
    /\ \E stopLine \in LineStrings :
        /\ Assign("setStopLine", RefLine, stopLine, <<stopLine>>)
        /\ UNCHANGED <<view, made, attrs, primAttrs, live>>

TrafficLight_removeStopLine ==
    /\ Alive(TL)
    /\ Assign("removeStopLine", RefLine, None, <<>>)
    /\ UNCHANGED <<view, made, attrs, primAttrs, live>>

(***************************************************************************)
(* RightOfWay.                                                             *)
(***************************************************************************)
constructRightOfWayData(attributes, rightOfWay, yield, stopLine) ==
    LET rpm == Put(Put(NoParams, RightOfWayRole, toRuleParametersLanelets(rightOfWay)),
                   Yield, toRuleParametersLanelets(yield))
    IN [parameters |-> IF stopLine # None THEN Put(rpm, RefLine, <<stopLine>>) ELSE rpm,
        attributes |-> [attributes EXCEPT ![AttrType] = RegulatoryElementStr,
                                          ![AttrSubtype] = RightOfWayStr]]

\* the checks of RightOfWay::RightOfWay(data): the message thrown, or ""
\* a faulty check that forgets the Yield role
RightOfWayCheck_NoYield(p) ==
    IF getParametersWeakLanelet(p, RightOfWayRole) = <<>>
    THEN "A maneuver must refer to at least one lanelet that has right of way!"
    ELSE ""

RightOfWayCheck(p) ==
    IF getParametersWeakLanelet(p, RightOfWayRole) = <<>>
    THEN "A maneuver must refer to at least one lanelet that has right of way!"
    ELSE IF getParametersWeakLanelet(p, Yield) = <<>>
         THEN "A maneuver must refer to at least one lanelet that has to yield!"
         ELSE ""

rightOfWayLanelets(p) == getParametersLanelet(p, RightOfWayRole)

yieldLanelets(p) == getParametersLanelet(p, Yield)

\* a faulty getManeuver that looks at the yielding lanelets first
getManeuver_YieldFirst(p, lanelet) ==
    IF contains(yieldLanelets(p), lanelet) THEN "Yield"
    ELSE IF contains(rightOfWayLanelets(p), lanelet) THEN "RightOfWay"
         ELSE "Unknown"

getManeuver(p, lanelet) ==
    IF contains(rightOfWayLanelets(p), lanelet) THEN "RightOfWay"
    ELSE IF contains(yieldLanelets(p), lanelet) THEN "Yield"
         ELSE "Unknown"

RightOfWayAlphabet == [r \in {RightOfWayRole, Yield, RefLine} |->
    IF r = RefLine THEN {LS(1)}
    ELSE IF r = Yield THEN {WLL(5), WLL(6)} ELSE {WLL(5), WLL(6), LS(1)}]

ROW == {"RightOfWay"}
RightOfWayLists == {RightOfWayRole, Yield}

\* the strong lanelets a caller can hold
Lanelets == {LL(i) : i \in live}

\* a raw record may refer to a lanelet that is gone by the time the view is built
RightOfWayRecords ==
    RawRecords({RightOfWayRole, Yield, RefLine}, RightOfWayAlphabet, RightOfWayLists,
               RightOfWayStr)

RightOfWayFromData ==
    /\ view = "none"
    /\ \E data \in RightOfWayRecords, gone \in SUBSET Destructible :
        /\ Construct("RightOfWay", "RightOfWay(data)", None, data, RightOfWayCheck(data.parameters))
        /\ live' = live \ gone
        /\ UNCHANGED primAttrs

RightOfWayNew ==
    /\ view = "none"
    /\ \E attributes \in AttrInputs, rightOfWay \in SeqsUpTo(Lanelets, MaxInit),
          yield \in SeqsUpTo(Lanelets, MaxInit), stopLine \in LineStrings \cup {None} :
        LET data == constructRightOfWayData(attributes, rightOfWay, yield, stopLine) IN
        /\ Len(rightOfWay) + Len(yield) <= MaxEntries
        /\ Construct("RightOfWay", "RightOfWay(id, ...)", None, data, RightOfWayCheck(data.parameters))
        /\ UNCHANGED <<primAttrs, live>>

RightOfWay_getManeuver ==
    /\ Alive(ROW)
    /\ \E lanelet \in Lanelets :
        /\ last' = [Call("getManeuver", "", lanelet) EXCEPT !.sret = getManeuver(params, lanelet)]
        /\ UNCHANGED <<view, made, status, params, attrs, primAttrs, live>>

RightOfWay_rightOfWayLanelets ==
    /\ Alive(ROW)
    /\ last' = [Call("rightOfWayLanelets", RightOfWayRole, None) EXCEPT
                   !.lret = rightOfWayLanelets(params)]
    /\ UNCHANGED <<view, made, status, params, attrs, primAttrs, live>>

RightOfWay_yieldLanelets ==
    /\ Alive(ROW)
    /\ last' = [Call("yieldLanelets", Yield, None) EXCEPT !.lret = yieldLanelets(params)]
    /\ UNCHANGED <<view, made, status, params, attrs, primAttrs, live>>

RightOfWay_stopLine ==
    /\ Alive(ROW)
    /\ LET stopLine == getParametersLineString(params, RefLine) IN
       last' = [Call("stopLine", RefLine, None) EXCEPT
                   !.oret = IF stopLine # <<>> THEN Head(stopLine) ELSE None]
    /\ UNCHANGED <<view, made, status, params, attrs, primAttrs, live>>

RightOfWay_setStopLine ==
    /\ Alive(ROW)
    /\ \E stopLine \in LineStrings :
        /\ Assign("setStopLine", RefLine, stopLine, <<stopLine>>)
        /\ UNCHANGED <<view, made, attrs, primAttrs, live>>

addRightOfWayLanelet ==
    /\ Alive(ROW)
    /\ \E lanelet \in Lanelets :
        /\ Add("addRightOfWayLanelet", RightOfWayRole, toWeak(lanelet), RightOfWayLists)
        /\ UNCHANGED <<view, made, attrs, primAttrs, live>>

addYieldLanelet ==
    /\ Alive(ROW)
    /\ \E lanelet \in Lanelets :
        /\ Add("addYieldLanelet", Yield, toWeak(lanelet), RightOfWayLists)
        /\ UNCHANGED <<view, made, attrs, primAttrs, live>>

removeRightOfWayLanelet ==
    /\ Alive(ROW)
    /\ \E lanelet \in Lanelets :
        /\ Remove("removeRightOfWayLanelet", RightOfWayRole, toWeak(lanelet), "addRightOfWayLanelet")
        /\ UNCHANGED <<view, made, attrs, primAttrs, live>>

removeYieldLanelet ==
    /\ Alive(ROW)
    /\ \E lanelet \in Lanelets :
        /\ Remove("removeYieldLanelet", Yield, toWeak(lanelet), "addYieldLanelet")
        /\ UNCHANGED <<view, made, attrs, primAttrs, live>>

RightOfWay_removeStopLine ==
    /\ Alive(ROW)
    /\ Assign("removeStopLine", RefLine, None, <<>>)
    /\ UNCHANGED <<view, made, attrs, primAttrs, live>>

\* the last owner of a lanelet the record refers to weakly lets go of it
DestroyLanelet ==
    /\ Alive(ROW)
    /\ \E l \in Destructible \cap live :
        /\ live' = live \ {l}
        /\ last' = Call("~Lanelet", "", LL(l))
        /\ UNCHANGED <<view, made, status, params, attrs, primAttrs>>

(***************************************************************************)
(* TrafficSign and SpeedLimit.                                             *)
(***************************************************************************)
\* prim.setAttribute(name, value) on the data the primitive shares
setAttribute(pa, prim, name, value) == [pa EXCEPT ![prim.id][name] = value]

hasAttribute(pa, prim, name) == pa[prim.id][name] # NoAttr

attribute(pa, prim, name) == pa[prim.id][name]

RECURSIVE updateEach(_, _, _)
updateEach(pa, signs, type) ==
    IF signs = <<>> THEN pa
    ELSE updateEach(setAttribute(setAttribute(pa, Head(signs), "type", TrafficSignStr),
                                 Head(signs), "subtype", type),
                    Tail(signs), type)

\* trafficSigns is a TrafficSignsWithType: the signs and their type string
updateTrafficSigns(pa, trafficSigns) ==
    IF trafficSigns.type # "" THEN updateEach(pa, trafficSigns.trafficSigns, trafficSigns.type)
    ELSE pa

constructTrafficSignData(pa, attributes, trafficSigns, cancellingTrafficSigns, refLines, cancelLines) ==
    LET rpm == [r \in {Refers, Cancels, RefLine, CancelLine} |->
                  IF r = Refers THEN toRuleParameters(trafficSigns.trafficSigns)
                  ELSE IF r = Cancels THEN toRuleParameters(cancellingTrafficSigns.trafficSigns)
                  ELSE IF r = RefLine THEN toRuleParameters(refLines)
                  ELSE toRuleParameters(cancelLines)]
    IN [parameters |-> rpm,
        attributes |-> [attributes EXCEPT ![AttrType] = RegulatoryElementStr,
                                          ![AttrSubtype] = TrafficSignStr],
        primAttrs |-> updateTrafficSigns(updateTrafficSigns(pa, trafficSigns),
                                         cancellingTrafficSigns)]

\* a faulty constructSpeedLimitData that leaves the traffic sign Subtype in place
constructSpeedLimitData_NoSubtype(pa, attributes, trafficSigns, cancellingTrafficSigns, refLines, cancelLines) ==
    constructTrafficSignData(pa, attributes, trafficSigns, cancellingTrafficSigns, refLines,
                             cancelLines)

constructSpeedLimitData(pa, attributes, trafficSigns, cancellingTrafficSigns, refLines, cancelLines) ==
    LET data == constructTrafficSignData(pa, attributes, trafficSigns, cancellingTrafficSigns,
                                         refLines, cancelLines)
    IN [data EXCEPT !.attributes[AttrSubtype] = SpeedLimitStr]

trafficSigns(p) == getLsOrPoly(p, Refers)

cancellingTrafficSigns(p) == getLsOrPoly(p, Cancels)

\* a faulty type() that reads the first Refers entry of whatever kind
TrafficSign_type_FirstEntry(p, pa) ==
    IF Get(p, Refers) = <<>>
    THEN [err |-> "Regulatory element can not determine the type of the traffic sign!", val |-> ""]
    ELSE IF hasAttribute(pa, Head(Get(p, Refers)), "subtype")
         THEN [err |-> "", val |-> attribute(pa, Head(Get(p, Refers)), "subtype")]
         ELSE [err |-> "Regulatory element has a traffic sign without subtype attribute!",
               val |-> ""]

\* TrafficSign::type: the string returned, or the message thrown
TrafficSign_type(p, pa) ==
    LET signs == trafficSigns(p) IN
    IF signs = <<>>
    THEN [err |-> "Regulatory element can not determine the type of the traffic sign!", val |-> ""]
    ELSE IF hasAttribute(pa, Head(signs), "subtype")
         THEN [err |-> "", val |-> attribute(pa, Head(signs), "subtype")]
         ELSE [err |-> "Regulatory element has a traffic sign without subtype attribute!",
               val |-> ""]

\* TrafficSign::cancelType: signs.front() of an empty vector is undefined
\* behaviour: the call may crash, or read an attribute map out of whatever
\* memory is there and throw or return accordingly
cancelTypeOutcomes(p, pa) ==
    LET signs == cancellingTrafficSigns(p)
        missing == "Regulatory element has a cancelling traffic sign without subtype attribute!"
    IN IF signs = <<>>
       THEN {[status |-> "crashed", err |-> "", val |-> ""],
             [status |-> "ok", err |-> missing, val |-> ""],
             [status |-> "ok", err |-> "", val |-> "<garbage>"]}
       ELSE IF hasAttribute(pa, Head(signs), "subtype")
            THEN {[status |-> "ok", err |-> "", val |-> attribute(pa, Head(signs), "subtype")]}
            ELSE {[status |-> "ok", err |-> missing, val |-> ""]}

\* the lines a TrafficSign is given as reference and cancelling lines
Lines == {LS(2)}

TrafficSignLists == {Refers, Cancels, RefLine, CancelLine}

TrafficSignAlphabet == [r \in TrafficSignLists |->
    IF r = Refers THEN {LS(1), POLY(3), PT(4)}
    ELSE IF r = Cancels THEN Signs ELSE Lines]

TrafficSignRecords ==
    RawRecords(TrafficSignLists, TrafficSignAlphabet, TrafficSignLists, TrafficSignStr)

SpeedLimitRecords ==
    RawRecords(TrafficSignLists, TrafficSignAlphabet, TrafficSignLists, SpeedLimitStr)

NoPrimAttrs == [type |-> NoAttr, subtype |-> NoAttr]

\* the attributes the sign primitives carry before any constructor is called:
\* linestring 1 is a tagged sign, polygon 3 has no attributes yet
SignAttrs == [i \in PrimIds |->
    IF i = 1 THEN [type |-> NoAttr, subtype |-> "de205"] ELSE NoPrimAttrs]

\* the type strings of a TrafficSignsWithType
SignTypeInputs == {"", "de206"}
CancelTypeInputs == {"", "de282"}

TS == {"TrafficSign", "SpeedLimit"}
\* SpeedLimit adds no member to TrafficSign; the mutators it inherits are
\* exercised on views whose dynamic type is TrafficSign
TSM == {"TrafficSign"}

\* TrafficSign::TrafficSign(data): type() throws if the type is invalid
TrafficSignFromData ==
    /\ view = "none"
    /\ \E data \in TrafficSignRecords :
        /\ Construct("TrafficSign", "TrafficSign(data)", None, data,
                     TrafficSign_type(data.parameters, primAttrs).err)
        /\ UNCHANGED <<primAttrs, live>>

SpeedLimitFromData ==
    /\ view = "none"
    /\ \E data \in SpeedLimitRecords :
        /\ Construct("SpeedLimit", "SpeedLimit(data)", None, data,
                     TrafficSign_type(data.parameters, primAttrs).err)
        /\ UNCHANGED <<primAttrs, live>>

TrafficSignNew ==
    /\ view = "none"
    /\ \E attributes \in AttrInputs,
          signs \in SeqsUpTo(Signs, MaxInit), type \in SignTypeInputs,
          cancelling \in SeqsUpTo(Signs, MaxInit), cancelType \in CancelTypeInputs,
          refLines \in SeqsUpTo(Lines, MaxInit),
          cancelLines \in SeqsUpTo(Lines, MaxInit) :
        LET data == constructTrafficSignData(primAttrs, attributes,
                        [trafficSigns |-> signs, type |-> type],
                        [trafficSigns |-> cancelling, type |-> cancelType],
                        refLines, cancelLines)
        IN
        /\ Entries(data.parameters, TrafficSignLists) <= MaxEntries
        /\ Construct("TrafficSign", "TrafficSign(id, ...)", [type |-> type, cancelType |-> cancelType], data,
                     TrafficSign_type(data.parameters, data.primAttrs).err)
        /\ primAttrs' = data.primAttrs
        /\ UNCHANGED live

SpeedLimitNew ==
    /\ view = "none"
    /\ \E attributes \in AttrInputs,
          signs \in SeqsUpTo(Signs, MaxInit), type \in SignTypeInputs,
          cancelling \in SeqsUpTo(Signs, MaxInit), cancelType \in CancelTypeInputs,
          refLines \in SeqsUpTo(Lines, MaxInit),
          cancelLines \in SeqsUpTo(Lines, MaxInit) :
        LET data == constructSpeedLimitData(primAttrs, attributes,
                        [trafficSigns |-> signs, type |-> type],
                        [trafficSigns |-> cancelling, type |-> cancelType],
                        refLines, cancelLines)
        IN
        /\ Entries(data.parameters, TrafficSignLists) <= MaxEntries
        /\ Construct("SpeedLimit", "SpeedLimit(id, ...)", [type |-> type, cancelType |-> cancelType], data,
                     TrafficSign_type(data.parameters, data.primAttrs).err)
        /\ primAttrs' = data.primAttrs
        /\ UNCHANGED live

type ==
    /\ Alive(TS)
    /\ LET t == TrafficSign_type(params, primAttrs) IN
       last' = IF t.err = "" THEN [Call("type", Refers, None) EXCEPT !.sret = t.val]
               ELSE Threw(Call("type", Refers, None), t.err)
    /\ UNCHANGED <<view, made, status, params, attrs, primAttrs, live>>

cancelType ==
    /\ Alive(TS)
    /\ \E o \in cancelTypeOutcomes(params, primAttrs) :
        /\ status' = o.status
        /\ last' = IF o.err = "" THEN [Call("cancelType", Cancels, None) EXCEPT !.sret = o.val]
                   ELSE Threw(Call("cancelType", Cancels, None), o.err)
    /\ UNCHANGED <<view, made, params, attrs, primAttrs, live>>

addTrafficSign ==
    /\ Alive(TSM)
    /\ \E sign \in Signs :
        /\ Add("addTrafficSign", Refers, asRuleParameter(sign), TrafficSignLists)
        /\ UNCHANGED <<view, made, attrs, primAttrs, live>>

removeTrafficSign ==
    /\ Alive(TSM)
    /\ \E sign \in Signs :
        /\ Remove("removeTrafficSign", Refers, asRuleParameter(sign), "addTrafficSign")
        /\ UNCHANGED <<view, made, attrs, primAttrs, live>>

addRefLine ==
    /\ Alive(TSM)
    /\ \E line \in Lines :
        /\ Add("addRefLine", RefLine, line, TrafficSignLists)
        /\ UNCHANGED <<view, made, attrs, primAttrs, live>>

removeRefLine ==
    /\ Alive(TSM)
    /\ \E line \in Lines :
        /\ Remove("removeRefLine", RefLine, line, "addRefLine")
        /\ UNCHANGED <<view, made, attrs, primAttrs, live>>

addCancellingRefLine ==
    /\ Alive(TSM)
    /\ \E line \in Lines :
        /\ Add("addCancellingRefLine", CancelLine, line, TrafficSignLists)
        /\ UNCHANGED <<view, made, attrs, primAttrs, live>>

removeCancellingRefLine ==
    /\ Alive(TSM)
    /\ \E line \in Lines :
        /\ Remove("removeCancellingRefLine", CancelLine, line, "addCancellingRefLine")
        /\ UNCHANGED <<view, made, attrs, primAttrs, live>>

addCancellingTrafficSign ==
    /\ Alive(TSM)
    /\ \E sign \in Signs :
        /\ Add("addCancellingTrafficSign", Cancels, asRuleParameter(sign), TrafficSignLists)
        /\ UNCHANGED <<view, made, attrs, primAttrs, live>>

removeCancellingTrafficSign ==
    /\ Alive(TSM)
    /\ \E sign \in Signs :
        /\ Remove("removeCancellingTrafficSign", Cancels, asRuleParameter(sign), "addCancellingTrafficSign")
        /\ UNCHANGED <<view, made, attrs, primAttrs, live>>

(***************************************************************************)
(* The specification.                                                      *)
(***************************************************************************)
Init ==
    /\ view = "none"
    /\ status = "new"
    /\ params = NoParams
    /\ attrs = EmptyAttributes
    /\ primAttrs = SignAttrs
    /\ live = LaneletIds
    /\ made = ""
    /\ last = Call("", "", None)

Next ==
    \/ TrafficLightFromData
    \/ TrafficLightNew
    \/ TrafficLight_stopLine
    \/ addTrafficLight
    \/ removeTrafficLight
    \/ TrafficLight_setStopLine
    \/ TrafficLight_removeStopLine
    \/ RightOfWayFromData
    \/ RightOfWayNew
    \/ RightOfWay_getManeuver
    \/ RightOfWay_rightOfWayLanelets
    \/ RightOfWay_yieldLanelets
    \/ RightOfWay_stopLine
    \/ RightOfWay_setStopLine
    \/ addRightOfWayLanelet
    \/ addYieldLanelet
    \/ removeRightOfWayLanelet
    \/ removeYieldLanelet
    \/ RightOfWay_removeStopLine
    \/ DestroyLanelet
    \/ TrafficSignFromData
    \/ TrafficSignNew
    \/ SpeedLimitFromData
    \/ SpeedLimitNew
    \/ type
    \/ cancelType
    \/ addTrafficSign
    \/ removeTrafficSign
    \/ addRefLine
    \/ removeRefLine
    \/ addCancellingRefLine
    \/ removeCancellingRefLine
    \/ addCancellingTrafficSign
    \/ removeCancellingTrafficSign

Spec == Init /\ [][Next]_vars

(***************************************************************************)
(* Vocabulary of the properties.                                           *)
(***************************************************************************)
RecordConstructors ==
    {"TrafficLight(data)", "RightOfWay(data)", "TrafficSign(data)", "SpeedLimit(data)"}
DirectConstructors ==
    {"TrafficLight(id, ...)", "RightOfWay(id, ...)", "TrafficSign(id, ...)", "SpeedLimit(id, ...)"}
RemoveCalls ==
    {"removeTrafficLight", "removeRightOfWayLanelet", "removeYieldLanelet", "removeTrafficSign",
     "removeCancellingTrafficSign", "removeRefLine", "removeCancellingRefLine"}

ThrewInvalidInput == last.err = InvalidInputError

\* x is an entry of s
Occurs(x, s) == \E i \in 1..Len(s) : s[i] = x

\* role r holds an entry of kind k
HoldsKind(r, k) == \E i \in 1..Len(Get(params, r)) : Get(params, r)[i].kind = k

(***************************************************************************)
(* C1: constructing a TrafficLight view throws the invalid-input failure   *)
(* if and only if the record's Refers sequence is empty or its RefLine     *)
(* sequence has two or more entries, whatever the kinds of the entries;    *)
(* and while RefLine is empty stopLine() returns the empty optional.       *)
(***************************************************************************)
C1_Claim ==
    /\ made \in {"TrafficLight(data)", "TrafficLight(id, ...)"} /\ last.op = made =>
          ((status = "failed" /\ ThrewInvalidInput)
              <=> (Get(params, Refers) = <<>> \/ Len(Get(params, RefLine)) >= 2))
    /\ view = "TrafficLight" /\ last.op = "stopLine" /\ Get(params, RefLine) = <<>> =>
          last.oret = None

(***************************************************************************)
(* C2 as claimed: constructing a RightOfWay view throws the invalid-input  *)
(* failure if and only if the RightOfWay role's sequence is empty or the   *)
(* Yield role's sequence is empty.                                         *)
(***************************************************************************)
C2_Claim ==
    made \in {"RightOfWay(data)", "RightOfWay(id, ...)"} /\ last.op = made =>
        ((status = "failed" /\ ThrewInvalidInput)
            <=> (Get(params, RightOfWayRole) = <<>> \/ Get(params, Yield) = <<>>))

(***************************************************************************)
(* C2 amended: constructing a RightOfWay view throws the invalid-input     *)
(* failure if and only if the RightOfWay role or the Yield role holds no   *)
(* lanelet reference; entries of other kinds do not count, and the stop    *)
(* line plays no part. The direct constructor stores lanelets only, so it  *)
(* throws if and only if one of the two lists it is given is empty.        *)
(***************************************************************************)
C2_Amended ==
    /\ made \in {"RightOfWay(data)", "RightOfWay(id, ...)"} /\ last.op = made =>
          ((status = "failed" /\ ThrewInvalidInput)
              <=> (~HoldsKind(RightOfWayRole, "weak_lanelet") \/ ~HoldsKind(Yield, "weak_lanelet")))
    /\ made = "RightOfWay(id, ...)" /\ last.op = made =>
          (status = "failed" <=> (Get(params, RightOfWayRole) = <<>> \/ Get(params, Yield) = <<>>))

\* a record whose RightOfWay role is not empty, yet holds no lanelet, is refused
C2_Witness ==
    /\ made = "RightOfWay(data)" /\ last.op = made
    /\ status = "failed"
    /\ Get(params, RightOfWayRole) # <<>>
    /\ Get(params, Yield) # <<>>

(***************************************************************************)
(* C3 as claimed: a removeX(r) that follows addX(r) returns true and       *)
(* leaves the role's sequence exactly as it was before the addX, whatever  *)
(* the sequence held before, r included.                                   *)
(***************************************************************************)
C3_Claim ==
    last.undo => (last.bret = TRUE /\ Get(params, last.role) = last.pre)

\* s without its first entry equal to x, and x appended
FirstMovedToEnd(s, x) ==
    LET i == CHOOSE k \in 1..Len(s) : s[k] = x /\ \A j \in 1..(k - 1) : s[j] # x
    IN Append(RemoveAt(s, i), x)

(***************************************************************************)
(* C3 amended: a removeX(r) that follows addX(r) returns true and leaves   *)
(* the role's sequence exactly as it was before the addX, provided the     *)
(* sequence did not hold r already. When it did, removeX still returns     *)
(* true but erases the first r, not the one just added: the sequence ends  *)
(* as the prior one with its first r moved to the end.                     *)
(***************************************************************************)
C3_Amended ==
    last.undo =>
        /\ last.bret = TRUE
        /\ status = "ok"
        /\ ~Occurs(last.arg, last.pre) => Get(params, last.role) = last.pre
        /\ Occurs(last.arg, last.pre) =>
              Get(params, last.role) = FirstMovedToEnd(last.pre, last.arg)

\* an add and its remove on a role that held two other entries
C3_Witness ==
    /\ last.undo
    /\ last.bret
    /\ Len(last.pre) >= 2
    /\ ~Occurs(last.arg, last.pre)
    /\ Get(params, last.role) = last.pre

(***************************************************************************)
(* C4: removing a reference that is not in the role's sequence returns     *)
(* false, raises no failure and leaves the whole parameter store as it     *)
(* was, also on a view built from a record that lacks the role's key.      *)
(***************************************************************************)
C4_Claim ==
    [][(last'.op \in RemoveCalls /\ ~Occurs(last'.arg, Get(params, last'.role))) =>
          (last'.bret = FALSE /\ last'.err = "" /\ status' = "ok" /\ params' = params)]_vars

(***************************************************************************)
(* Vocabulary of the TrafficSign properties.                               *)
(***************************************************************************)
TrafficSignConstructors ==
    {"TrafficSign(data)", "SpeedLimit(data)", "TrafficSign(id, ...)", "SpeedLimit(id, ...)"}

IsSign(x) == x.kind \in {"linestring", "polygon"}

\* the linestring and polygon entries of role r, in stored order
SignEntries(r) == SelectSeq(Get(params, r), IsSign)

SubtypeOf(x) == primAttrs[x.id]["subtype"]

TypeOf(x) == primAttrs[x.id]["type"]

\* the first entry of role r, of whatever kind, is missing or has no Subtype
NoFirstSubtype(r) == Get(params, r) = <<>> \/ SubtypeOf(Head(Get(params, r))) = NoAttr

\* the first linestring or polygon of role r is missing or has no Subtype
NoFirstSignSubtype(r) == SignEntries(r) = <<>> \/ SubtypeOf(Head(SignEntries(r))) = NoAttr

\* the call just made is a direct TrafficSign or SpeedLimit construction that was
\* given a non-empty type string and at least one sign
TypedConstruction ==
    /\ made \in {"TrafficSign(id, ...)", "SpeedLimit(id, ...)"}
    /\ last.op = made
    /\ last.arg.type # ""
    /\ Get(params, Refers) # <<>>

(***************************************************************************)
(* C5 as claimed: type() returns the Subtype of the first entry of Refers  *)
(* and throws the invalid-input failure iff Refers is empty or that first  *)
(* entry has no Subtype; construction fails exactly when type() would;     *)
(* given a non-empty type string T and at least one sign, every passed     *)
(* sign ends with Type traffic_sign and Subtype T (every cancelling sign   *)
(* with its own non-empty string likewise), construction succeeds and      *)
(* type() returns T.                                                       *)
(***************************************************************************)
C5_Claim ==
    /\ last.op = "type" =>
          /\ ThrewInvalidInput <=> NoFirstSubtype(Refers)
          /\ ~ThrewInvalidInput => last.sret = SubtypeOf(Head(Get(params, Refers)))
    /\ made \in TrafficSignConstructors /\ last.op = made =>
          (status = "failed" <=> NoFirstSubtype(Refers))
    /\ TypedConstruction =>
          /\ status = "ok"
          /\ \A i \in 1..Len(Get(params, Refers)) :
                /\ TypeOf(Get(params, Refers)[i]) = TrafficSignStr
                /\ SubtypeOf(Get(params, Refers)[i]) = last.arg.type
          /\ last.arg.cancelType # "" =>
                \A i \in 1..Len(Get(params, Cancels)) :
                    /\ TypeOf(Get(params, Cancels)[i]) = TrafficSignStr
                    /\ SubtypeOf(Get(params, Cancels)[i]) = last.arg.cancelType
          /\ SubtypeOf(Head(Get(params, Refers))) = last.arg.type

\* the Subtype a sign passed to a typed construction ends with: the cancelling
\* signs are tagged after the signs, so a primitive passed as both keeps the
\* cancelling type string
TaggedAs(x) ==
    IF last.arg.cancelType # "" /\ Occurs(x, Get(params, Cancels))
    THEN last.arg.cancelType
    ELSE last.arg.type

(***************************************************************************)
(* C5 amended: type() returns the Subtype of the first linestring or       *)
(* polygon of Refers (entries of other kinds are skipped) and throws the   *)
(* invalid-input failure iff there is none or it has no Subtype;           *)
(* construction fails exactly when type() would; given a non-empty type    *)
(* string T and at least one sign, construction succeeds, every passed     *)
(* sign and every cancelling sign with a non-empty string of its own ends  *)
(* with Type traffic_sign, every such cancelling sign with Subtype equal   *)
(* to its string, and every sign with Subtype T unless it is also passed   *)
(* as such a cancelling sign, whose string it then carries; type() returns *)
(* the Subtype the first sign ends with.                                   *)
(***************************************************************************)
C5_Amended ==
    /\ last.op = "type" =>
          /\ ThrewInvalidInput <=> NoFirstSignSubtype(Refers)
          /\ ~ThrewInvalidInput => last.sret = SubtypeOf(Head(SignEntries(Refers)))
    /\ made \in TrafficSignConstructors /\ last.op = made =>
          ((status = "failed" /\ ThrewInvalidInput) <=> NoFirstSignSubtype(Refers))
    /\ TypedConstruction =>
          /\ status = "ok"
          /\ \A i \in 1..Len(Get(params, Refers)) :
                /\ TypeOf(Get(params, Refers)[i]) = TrafficSignStr
                /\ SubtypeOf(Get(params, Refers)[i]) = TaggedAs(Get(params, Refers)[i])
          /\ last.arg.cancelType # "" =>
                \A i \in 1..Len(Get(params, Cancels)) :
                    /\ TypeOf(Get(params, Cancels)[i]) = TrafficSignStr
                    /\ SubtypeOf(Get(params, Cancels)[i]) = last.arg.cancelType
          /\ SubtypeOf(Head(SignEntries(Refers))) = TaggedAs(Head(Get(params, Refers)))

\* type() answers with the string the constructor tagged the first sign with
C5_Witness ==
    /\ made = "TrafficSign(id, ...)"
    /\ last.op = "type"
    /\ ~ThrewInvalidInput
    /\ last.sret = "de206"
    /\ TypeOf(Head(SignEntries(Refers))) = TrafficSignStr

(***************************************************************************)
(* C9: cancelType() returns the Subtype of the first Cancels entry and     *)
(* throws the invalid-input failure, rather than reading from an empty     *)
(* sequence, when Cancels is empty or that entry has no Subtype.           *)
(***************************************************************************)
C9_Claim ==
    last.op = "cancelType" =>
        /\ status = "ok"
        /\ ThrewInvalidInput <=> NoFirstSignSubtype(Cancels)
        /\ ~ThrewInvalidInput => last.sret = SubtypeOf(Head(SignEntries(Cancels)))

(***************************************************************************)
(* Vocabulary of the RightOfWay properties.                                *)
(***************************************************************************)
\* role r holds a reference to lanelet l that still resolves
Resolves(l, r) ==
    \E i \in 1..Len(Get(params, r)) :
        /\ Get(params, r)[i] = WLL(l.id)
        /\ l.id \in live

IsExpiredRef(x) == x.kind = "weak_lanelet" /\ x.id \notin live

IsLiveRef(x) == x.kind = "weak_lanelet" /\ x.id \in live

Resolved(x) == LL(x.id)

\* the lanelets role r resolves to, in stored order
LiveLanelets(r) ==
    [i \in 1..Len(SelectSeq(Get(params, r), IsLiveRef)) |->
        Resolved(SelectSeq(Get(params, r), IsLiveRef)[i])]

AllReferences ==
    LineStrings \cup Polygons \cup Points \cup {WLL(i) : i \in LaneletIds}

(***************************************************************************)
(* C6: getManeuver(l) answers RightOfWay when l is among the resolved      *)
(* lanelets of the RightOfWay role, else Yield when l is among those of    *)
(* the Yield role, else Unknown; a lanelet in both roles is RightOfWay.    *)
(***************************************************************************)
C6_Claim ==
    last.op = "getManeuver" =>
        /\ last.err = ""
        /\ last.sret = IF Resolves(last.arg, RightOfWayRole) THEN "RightOfWay"
                       ELSE IF Resolves(last.arg, Yield) THEN "Yield"
                       ELSE "Unknown"

\* a lanelet referenced by both roles is reported as having right of way
C6_Witness ==
    /\ last.op = "getManeuver"
    /\ Resolves(last.arg, RightOfWayRole)
    /\ Resolves(last.arg, Yield)
    /\ last.sret = "RightOfWay"

(***************************************************************************)
(* C7: an expired weak lanelet reference is skipped by the lanelet         *)
(* accessors without failure, so rightOfWayLanelets(), yieldLanelets() and *)
(* getManeuver() see only the lanelets that still resolve; it compares     *)
(* unequal to every reference, itself included, so no removal removes it.  *)
(***************************************************************************)
C7_Claim ==
    /\ last.op = "rightOfWayLanelets" =>
          last.err = "" /\ status = "ok" /\ last.lret = LiveLanelets(RightOfWayRole)
    /\ last.op = "yieldLanelets" =>
          last.err = "" /\ status = "ok" /\ last.lret = LiveLanelets(Yield)
    /\ last.op = "getManeuver" =>
          /\ last.err = "" /\ status = "ok"
          /\ last.sret # "Unknown" =>
                Resolves(last.arg, RightOfWayRole) \/ Resolves(last.arg, Yield)
    /\ \A x \in AllReferences : \A y \in AllReferences :
          IsExpiredRef(x) => ~RuleParameterEq(x, y) /\ ~RuleParameterEq(y, x)
    /\ last.op \in {"removeRightOfWayLanelet", "removeYieldLanelet"} =>
          /\ last.err = "" /\ status = "ok"
          /\ SelectSeq(Get(params, last.role), IsExpiredRef) = SelectSeq(last.pre, IsExpiredRef)

\* the accessor meets an expired reference and still returns the live lanelet
C7_Witness ==
    /\ last.op = "rightOfWayLanelets"
    /\ \E i \in 1..Len(Get(params, RightOfWayRole)) : IsExpiredRef(Get(params, RightOfWayRole)[i])
    /\ last.lret # <<>>

\* a removal found its lanelet in a role that also holds an expired reference
C7_WitnessRemove ==
    /\ last.op = "removeRightOfWayLanelet"
    /\ last.bret
    /\ SelectSeq(last.pre, IsExpiredRef) # <<>>

(***************************************************************************)
(* Vocabulary of the attribute properties.                                 *)
(***************************************************************************)
SubtypeTag ==
    [TrafficLight |-> TrafficLightStr, RightOfWay |-> RightOfWayStr,
     TrafficSign |-> TrafficSignStr, SpeedLimit |-> SpeedLimitStr]

(***************************************************************************)
(* C8 as claimed: every constructor, the record constructors included,     *)
(* leaves the element with Type regulatory_element and the Subtype of its  *)
(* kind.                                                                   *)
(***************************************************************************)
C8_Claim ==
    status = "ok" =>
        /\ attrs[AttrType] = RegulatoryElementStr
        /\ attrs[AttrSubtype] = SubtypeTag[view]

(***************************************************************************)
(* C8 amended: a constructor taking an id and attributes leaves the        *)
(* element with Type regulatory_element and the Subtype of its kind,       *)
(* overwriting what the caller supplied and keeping the other attributes;  *)
(* a constructor taking a data record keeps the record's attributes as     *)
(* they are and sets neither Type nor Subtype.                             *)
(***************************************************************************)
C8_Amended ==
    /\ made \in DirectConstructors /\ last.op = made /\ status = "ok" =>
          /\ attrs[AttrType] = RegulatoryElementStr
          /\ attrs[AttrSubtype] = SubtypeTag[view]
          /\ attrs[AttrLocation] = ForeignAttributes[AttrLocation]
    /\ made \in RecordConstructors /\ last.op = made /\ status = "ok" =>
          attrs = RawAttributes(SubtypeTag[view])

\* a speed limit built from an id and foreign attributes carries its own tags
C8_Witness ==
    /\ made = "SpeedLimit(id, ...)"
    /\ last.op = made
    /\ attrs[AttrSubtype] = SpeedLimitStr
    /\ attrs[AttrLocation] = "urban"

(***************************************************************************)
(* Vocabulary of the stop line properties.                                 *)
(***************************************************************************)
StopLineViews == {"TrafficLight", "RightOfWay"}

IsLineString(x) == x.kind = "linestring"

\* every role but r, and the attributes, are as before the step
Frame(r) ==
    /\ \A q \in Roles \ {r} : Get(params', q) = Get(params, q)
    /\ attrs' = attrs

(***************************************************************************)
(* C10 as claimed: a TrafficLight or RightOfWay always holds at most one   *)
(* RefLine entry; setStopLine(s) leaves RefLine as exactly [s] whatever it *)
(* held, removeStopLine() leaves it empty, and neither changes another     *)
(* role or the attributes.                                                 *)
(***************************************************************************)
C10_Claim ==
    [][/\ view' \in StopLineViews /\ status' = "ok" => Len(Get(params', RefLine)) <= 1
       /\ last'.op = "setStopLine" => Get(params', RefLine) = <<last'.arg>> /\ Frame(RefLine)
       /\ last'.op = "removeStopLine" => Get(params', RefLine) = <<>> /\ Frame(RefLine)]_vars

(***************************************************************************)
(* C10 amended: a TrafficLight or RightOfWay built from an id and its      *)
(* arguments holds at most one RefLine entry, a TrafficLight built from a  *)
(* record holds at most one linestring in RefLine (entries of other kinds  *)
(* are not counted) and a RightOfWay built from a record is not checked;   *)
(* once RefLine holds at most one entry no operation makes it hold more;   *)
(* setStopLine(s) leaves RefLine as exactly [s] whatever it held,          *)
(* removeStopLine() leaves it empty, and neither changes another role or   *)
(* the attributes; stopLine() answers the first linestring of RefLine, or  *)
(* nothing when there is none.                                             *)
(***************************************************************************)
C10_Amended ==
    [][/\ made' \in {"TrafficLight(id, ...)", "RightOfWay(id, ...)"} /\ status' = "ok" =>
             Len(Get(params', RefLine)) <= 1
       /\ view' = "TrafficLight" /\ status' = "ok" =>
             Len(SelectSeq(Get(params', RefLine), IsLineString)) <= 1
       /\ view \in StopLineViews /\ status = "ok" /\ Len(Get(params, RefLine)) <= 1 =>
             Len(Get(params', RefLine)) <= 1
       /\ last'.op = "setStopLine" => Get(params', RefLine) = <<last'.arg>> /\ Frame(RefLine)
       /\ last'.op = "removeStopLine" => Get(params', RefLine) = <<>> /\ Frame(RefLine)
       /\ last'.op = "stopLine" =>
             /\ last'.err = ""
             /\ last'.oret = IF SelectSeq(Get(params', RefLine), IsLineString) = <<>>
                             THEN None
                             ELSE Head(SelectSeq(Get(params', RefLine), IsLineString))]_vars

\* a right of way built from a record with two stop lines is given a new one
C10_Witness ==
    /\ made = "RightOfWay(data)"
    /\ last.op = "setStopLine"
    /\ Len(last.pre) >= 2
    /\ Get(params, RefLine) = <<last.arg>>

====
